---- MODULE Spec2Model ----
(***************************************************************************)
(* The three SSTV scripts of scripts/ as a state machine:                  *)
(*   sstv-decode-wrapper.py   (the decode wrapper)                         *)
(*   generate-sstv-test.py    (the test-signal generator)                  *)
(*   test-sstv-roundtrip.py   (the encode/decode round-trip test)          *)
(* Two invocations run concurrently as separate OS processes over one      *)
(* file system.  The codec itself (sstv.decode.SSTVDecoder,                *)
(* sstv.encode.SSTVEncoder, pysstv.color.Robot36) and PIL are imported     *)
(* libraries: every call into them is a step whose outcome (returns,       *)
(* raises, which image) is chosen by the environment.  print is taken to   *)
(* return, and a file that was written is still there when it is stat'ed:  *)
(* no step removes a file.                                                 *)
(***************************************************************************)
EXTENDS Integers, Sequences, FiniteSets, TLC

\* The concurrent invocations (0 is "nobody": a file that was there before).
Procs == {1, 2}

\* Longest command line tried: number of arguments after the script name.
MaxArgs == 3

Scripts == {"wrapper", "generator", "roundtrip"}

\* File names the command lines are drawn from.
ArgPool == {"rec.wav", "out.png", "alt.png"}

\* generate-sstv-test.py:16, the output file when no argument is given.
DefaultOutput == "sstv-test-transmission.wav"

\* test-sstv-roundtrip.py:50,63,83, the files inside the test directory.
InputPng == "input.png"
EncodedWav == "encoded.wav"
DecodedPng == "decoded.png"

Names == ArgPool \cup {DefaultOutput, InputPng, EncodedWav, DecodedPng, "extra"}

\* A path: directory 0 is the working directory, directory d > 0 is the
\* d-th directory made by tempfile.mkdtemp.
Dirs == 0 .. Cardinality(Procs)
AllPaths == [dir : Dirs, name : Names]
Cwd(name) == [dir |-> 0, name |-> name]

\* What is at a path: whether a file is there, who wrote it last (0: it was
\* there before the runs), and whether the write completed.
Absent == [exists |-> FALSE, by |-> 0, whole |-> FALSE]
Before == [exists |-> TRUE, by |-> 0, whole |-> TRUE]
Written(p) == [exists |-> TRUE, by |-> p, whole |-> TRUE]
Partial(p) == [exists |-> TRUE, by |-> p, whole |-> FALSE]

\* The sets of files that may exist before the runs start.
PreExisting == {{}, {"rec.wav"}, {"rec.wav", "out.png"}}

\* Command lines: sys.argv[1:].  Arguments past the second are never read
\* by any script, so they are all "extra".
Filler(k) == [i \in 1 .. k |-> "extra"]
ArgvSet ==
    {<<>>} \cup {<<a>> : a \in ArgPool}
    \cup {<<ab[1], ab[2]>> \o Filler(n - 2) :
            ab \in ArgPool \X ArgPool, n \in 2 .. MaxArgs}

\* An image: its size and one representative pixel channel value.
NoImage == [width |-> 0, height |-> 0, sample |-> 0]
\* generate-sstv-test.py:32 and test-sstv-roundtrip.py:34:
\* Image.new('RGB', (320, 256)), first colour bar at full intensity.
TestPattern == [width |-> 320, height |-> 256, sample |-> 255]
\* What a decoder may hand back as decoder.image.
DecodedImages ==
    { [width |-> 320, height |-> 256, sample |-> 255],
      [width |-> 320, height |-> 240, sample |-> 253],
      [width |-> 320, height |-> 240, sample |-> 0] }

VARIABLES
    script,      \* script[p]: which script invocation p runs
    argv,        \* argv[p]: sys.argv[1:]
    pc,          \* pc[p]: where p is in its script
    result,      \* result[p]: how the process ended
    out,         \* out[p]: the messages printed, in order
    calls,       \* calls[p]: the library calls made, in order, with outcome
    acc,         \* acc[p]: the file accesses made: path, op, last writer seen
    fs,          \* the file system
    nextTmp,     \* number of directories mkdtemp has made
    testDir,     \* testDir[p]: the directory mkdtemp gave p (0: none)
    termPatched, \* termPatched[p]: os.get_terminal_size replaced in p's process
    img,         \* img[p]: the test image built by p
    decImage     \* decImage[p]: decoder.image of p's decoder

vars == <<script, argv, pc, result, out, calls, acc, fs, nextTmp, testDir,
          termPatched, img, decImage>>

Call(op, ok) == [op |-> op, ok |-> ok]
Access(path, op) == [path |-> path, op |-> op, by |-> fs[path].by]

\* The exit status the caller of the process sees.  sys.exit(n) and
\* sys.exit(main()) give n; an exception that leaves the script uncaught
\* makes the interpreter exit with status 1.
ExitStatus(p) ==
    CASE result[p] = "running" -> -1
      [] result[p] \in {"exit0", "return0"} -> 0
      [] OTHER -> 1

Done(p) == result[p] # "running"

Init ==
    /\ script \in [Procs -> Scripts]
    /\ argv \in [Procs -> ArgvSet]
    \* test-sstv-roundtrip.py never reads sys.argv
    /\ \A p \in Procs : script[p] = "roundtrip" => argv[p] = <<>>
    /\ pc = [p \in Procs |-> "import"]
    /\ result = [p \in Procs |-> "running"]
    /\ out = [p \in Procs |-> <<>>]
    /\ calls = [p \in Procs |-> <<>>]
    /\ acc = [p \in Procs |-> {}]
    /\ \E pre \in PreExisting :
         fs = [x \in AllPaths |->
                 IF x.dir = 0 /\ x.name \in pre THEN Before ELSE Absent]
    /\ nextTmp = 0
    /\ testDir = [p \in Procs |-> 0]
    /\ termPatched = [p \in Procs |-> FALSE]
    /\ img = [p \in Procs |-> NoImage]
    /\ decImage = [p \in Procs |-> NoImage]

\* A step of p that ends it: the messages printed and the way it ends.
Finish(p, msgs, how) ==
    /\ out' = [out EXCEPT ![p] = @ \o msgs]
    /\ result' = [result EXCEPT ![p] = how]
    /\ pc' = [pc EXCEPT ![p] = "done"]

\* A step of p that goes on to the next place.
Goto(p, msgs, next) ==
    /\ out' = [out EXCEPT ![p] = @ \o msgs]
    /\ pc' = [pc EXCEPT ![p] = next]
    /\ UNCHANGED result

Record(p, c) == calls' = [calls EXCEPT ![p] = Append(@, c)]
Touch(p, a) == acc' = [acc EXCEPT ![p] = @ \cup {a}]

\* What a failed write may leave at a path: nothing new, or a partial file.
FailedWrite(p, path) ==
    \/ UNCHANGED fs
    \/ fs' = [fs EXCEPT ![path] = Partial(p)]

At(p, s, where) == script[p] = s /\ pc[p] = where /\ ~Done(p)

(***************************************************************************)
(* sstv-decode-wrapper.py                                                  *)
(***************************************************************************)

\* Lines 9-16: patch os.get_terminal_size, then import SSTVDecoder.  The
\* import is at module level: an ImportError leaves the script uncaught.
WImport(p) ==
    /\ At(p, "wrapper", "import")
    /\ termPatched' = [termPatched EXCEPT ![p] = TRUE]
    /\ \E ok \in BOOLEAN :
         /\ Record(p, Call("import", ok))
         /\ IF ok THEN Goto(p, <<>>, "args")
                  ELSE Finish(p, <<"TRACEBACK">>, "uncaught")
    /\ UNCHANGED <<script, argv, acc, fs, nextTmp, testDir, img, decImage>>

\* Lines 19-24: len(sys.argv) != 3.
WCheckArgs(p) ==
    /\ At(p, "wrapper", "args")
    /\ IF Len(argv[p]) + 1 # 3
         THEN Finish(p, <<"USAGE">>, "exit1")
         ELSE Goto(p, <<>>, "exists")
    /\ UNCHANGED <<script, argv, calls, acc, fs, nextTmp, testDir,
                   termPatched, img, decImage>>

InputWav(p) == Cwd(argv[p][1])
OutputPng(p) == Cwd(argv[p][2])

\* A wrapper that goes on to the decoder whether or not the input exists.
WCheckInput_NoCheck(p) ==
    /\ At(p, "wrapper", "exists")
    /\ Touch(p, Access(InputWav(p), "read"))
    /\ Goto(p, <<>>, "construct")
    /\ UNCHANGED <<script, argv, calls, fs, nextTmp, testDir, termPatched,
                   img, decImage>>

\* Lines 26-29: os.path.exists(input_wav).
WCheckInput(p) ==
    /\ At(p, "wrapper", "exists")
    /\ Touch(p, Access(InputWav(p), "read"))
    /\ IF ~fs[InputWav(p)].exists
         THEN Finish(p, <<"ERROR_INPUT_NOT_FOUND">>, "exit1")
         ELSE Goto(p, <<>>, "construct")
    /\ UNCHANGED <<script, argv, calls, fs, nextTmp, testDir, termPatched,
                   img, decImage>>

\* A wrapper that creates the output file before it decodes.
WConstruct_OpensOutput(p) ==
    /\ At(p, "wrapper", "construct")
    /\ acc' = [acc EXCEPT ![p] = @ \cup {Access(InputWav(p), "read"),
                                        Access(OutputPng(p), "write")}]
    /\ fs' = [fs EXCEPT ![OutputPng(p)] = Partial(p)]
    /\ \E ok \in BOOLEAN :
         /\ Record(p, Call("SSTVDecoder", ok))
         /\ IF ok THEN Goto(p, <<>>, "decode")
                  ELSE Finish(p, <<"ERROR_DECODE">>, "exit1")
    /\ UNCHANGED <<script, argv, nextTmp, testDir, termPatched, img,
                   decImage>>

\* Line 33: decoder = SSTVDecoder(input_wav); an Exception goes to line 45.
WConstruct(p) ==
    /\ At(p, "wrapper", "construct")
    /\ Touch(p, Access(InputWav(p), "read"))
    /\ \E ok \in BOOLEAN :
         /\ Record(p, Call("SSTVDecoder", ok))
         /\ IF ok THEN Goto(p, <<>>, "decode")
                  ELSE Finish(p, <<"ERROR_DECODE">>, "exit1")
    /\ UNCHANGED <<script, argv, fs, nextTmp, testDir, termPatched, img,
                   decImage>>

\* A wrapper whose handler reports every failed decode as "no signal".
WDecode_OneMessage(p) ==
    /\ At(p, "wrapper", "decode")
    /\ Touch(p, Access(InputWav(p), "read"))
    /\ \/ /\ Record(p, Call("decode", FALSE))
          /\ Finish(p, <<"FAILED_NO_SIGNAL">>, "exit1")
          /\ UNCHANGED decImage
       \/ /\ Record(p, Call("decode", TRUE))
          /\ Finish(p, <<"FAILED_NO_SIGNAL">>, "exit1")
          /\ UNCHANGED decImage
       \/ /\ Record(p, Call("decode", TRUE))
          /\ \E im \in DecodedImages :
               decImage' = [decImage EXCEPT ![p] = im]
          /\ Goto(p, <<>>, "save")
    /\ UNCHANGED <<script, argv, fs, nextTmp, testDir, termPatched, img>>

\* Lines 34-43: decoder.decode(), then the test of decoder.image.  decode
\* raises, or returns leaving no (truthy) image, or returns leaving one.
WDecode(p) ==
    /\ At(p, "wrapper", "decode")
    /\ Touch(p, Access(InputWav(p), "read"))
    /\ \/ /\ Record(p, Call("decode", FALSE))
          /\ Finish(p, <<"ERROR_DECODE">>, "exit1")
          /\ UNCHANGED decImage
       \/ /\ Record(p, Call("decode", TRUE))
          /\ Finish(p, <<"FAILED_NO_SIGNAL">>, "exit1")
          /\ UNCHANGED decImage
       \/ /\ Record(p, Call("decode", TRUE))
          /\ \E im \in DecodedImages :
               decImage' = [decImage EXCEPT ![p] = im]
          /\ Goto(p, <<>>, "save")
    /\ UNCHANGED <<script, argv, fs, nextTmp, testDir, termPatched, img>>

\* A wrapper that ignores an exception raised by save.
WSave_Swallows(p) ==
    /\ At(p, "wrapper", "save")
    /\ Touch(p, Access(OutputPng(p), "write"))
    /\ \/ /\ Record(p, Call("save", TRUE))
          /\ fs' = [fs EXCEPT ![OutputPng(p)] = Written(p)]
       \/ /\ Record(p, Call("save", FALSE))
          /\ FailedWrite(p, OutputPng(p))
    /\ Goto(p, <<>>, "report")
    /\ UNCHANGED <<script, argv, nextTmp, testDir, termPatched, img,
                   decImage>>

\* Line 38 and lines 45-47: decoder.image.save(output_png); an Exception
\* raised by save goes to line 45.
WSave(p) ==
    /\ At(p, "wrapper", "save")
    /\ Touch(p, Access(OutputPng(p), "write"))
    /\ \/ /\ Record(p, Call("save", TRUE))
          /\ fs' = [fs EXCEPT ![OutputPng(p)] = Written(p)]
          /\ Goto(p, <<>>, "report")
       \/ /\ Record(p, Call("save", FALSE))
          /\ FailedWrite(p, OutputPng(p))
          /\ Finish(p, <<"ERROR_DECODE">>, "exit1")
    /\ UNCHANGED <<script, argv, nextTmp, testDir, termPatched, img,
                   decImage>>

\* Lines 39-40: the SUCCESS message, then sys.exit(0).  SystemExit is no
\* Exception, so line 45 does not catch it.
WReport(p) ==
    /\ At(p, "wrapper", "report")
    /\ Finish(p, <<"SUCCESS">>, "exit0")
    /\ UNCHANGED <<script, argv, calls, acc, fs, nextTmp, testDir,
                   termPatched, img, decImage>>

Wrapper(p) ==
    \/ WImport(p)
    \/ WCheckArgs(p)
    \/ WCheckInput(p)
    \/ WConstruct(p)
    \/ WDecode(p)
    \/ WSave(p)
    \/ WReport(p)

(***************************************************************************)
(* generate-sstv-test.py                                                   *)
(***************************************************************************)

\* Line 16: sys.argv[1] if len(sys.argv) > 1 else the default name.
GenOutput(p) ==
    Cwd(IF Len(argv[p]) + 1 > 1 THEN argv[p][1] ELSE DefaultOutput)

\* Lines 20-28: the imports, inside try/except ImportError.
GImport(p) ==
    /\ At(p, "generator", "import")
    /\ \E ok \in BOOLEAN :
         /\ Record(p, Call("import", ok))
         /\ IF ok THEN Goto(p, <<"MODULE_LOADED">>, "image")
                  ELSE Finish(p, <<"ERROR_NOT_INSTALLED">>, "return1")
    /\ UNCHANGED <<script, argv, acc, fs, nextTmp, testDir, termPatched,
                   img, decImage>>

\* Lines 30-62: the 320x256 colour-bar test pattern.
GImage(p) ==
    /\ At(p, "generator", "image")
    /\ img' = [img EXCEPT ![p] = TestPattern]
    /\ Goto(p, <<"PATTERN_CREATED">>, "encoder")
    /\ UNCHANGED <<script, argv, calls, acc, fs, nextTmp, testDir,
                   termPatched, decImage>>

\* Line 70: sstv = Robot36(img, 48000, 16); an Exception goes to line 114.
GConstruct(p) ==
    /\ At(p, "generator", "encoder")
    /\ \E ok \in BOOLEAN :
         /\ Record(p, Call("Robot36", ok))
         /\ IF ok THEN Goto(p, <<>>, "write")
                  ELSE Finish(p, <<"ERROR_ENCODE", "TRACEBACK">>, "return1")
    /\ UNCHANGED <<script, argv, acc, fs, nextTmp, testDir, termPatched,
                   img, decImage>>

\* Line 73: sstv.write_wav(output_file).
GWrite(p) ==
    /\ At(p, "generator", "write")
    /\ Touch(p, Access(GenOutput(p), "write"))
    /\ \/ /\ Record(p, Call("write_wav", TRUE))
          /\ fs' = [fs EXCEPT ![GenOutput(p)] = Written(p)]
          /\ Goto(p, <<>>, "stat")
       \/ /\ Record(p, Call("write_wav", FALSE))
          /\ FailedWrite(p, GenOutput(p))
          /\ Finish(p, <<"ERROR_ENCODE", "TRACEBACK">>, "return1")
    /\ UNCHANGED <<script, argv, nextTmp, testDir, termPatched, img,
                   decImage>>

\* Lines 75-112: Path(output_file).stat(), the report, return 0.
GStat(p) ==
    /\ At(p, "generator", "stat")
    /\ Touch(p, Access(GenOutput(p), "read"))
    /\ IF fs[GenOutput(p)].exists
         THEN Finish(p, <<"GENERATED">>, "return0")
         ELSE Finish(p, <<"ERROR_ENCODE", "TRACEBACK">>, "return1")
    /\ UNCHANGED <<script, argv, calls, fs, nextTmp, testDir, termPatched,
                   img, decImage>>

Generator(p) ==
    \/ GImport(p)
    \/ GImage(p)
    \/ GConstruct(p)
    \/ GWrite(p)
    \/ GStat(p)

(***************************************************************************)
(* test-sstv-roundtrip.py                                                  *)
(***************************************************************************)

TestFile(p, name) == [dir |-> testDir[p], name |-> name]

\* Lines 16-26: the imports, inside try/except ImportError.
RImport(p) ==
    /\ At(p, "roundtrip", "import")
    /\ \E ok \in BOOLEAN :
         /\ Record(p, Call("import", ok))
         /\ IF ok THEN Goto(p, <<"MODULES_IMPORTED">>, "mkdtemp")
                  ELSE Finish(p, <<"ERROR_IMPORT">>, "return1")
    /\ UNCHANGED <<script, argv, acc, fs, nextTmp, testDir, termPatched,
                   img, decImage>>

\* A test that uses one fixed test directory instead of mkdtemp's fresh one.
RMkdtemp_FixedDir(p) ==
    /\ At(p, "roundtrip", "mkdtemp")
    /\ Record(p, Call("mkdtemp", TRUE))
    /\ nextTmp' = 1
    /\ testDir' = [testDir EXCEPT ![p] = 1]
    /\ Goto(p, <<>>, "image")
    /\ UNCHANGED <<script, argv, acc, fs, termPatched, img, decImage>>

\* Line 29: tempfile.mkdtemp makes a directory no earlier call returned.
\* It is outside every try: an exception leaves main uncaught.
RMkdtemp(p) ==
    /\ At(p, "roundtrip", "mkdtemp")
    /\ \/ /\ Record(p, Call("mkdtemp", TRUE))
          /\ nextTmp' = nextTmp + 1
          /\ testDir' = [testDir EXCEPT ![p] = nextTmp + 1]
          /\ Goto(p, <<>>, "image")
       \/ /\ Record(p, Call("mkdtemp", FALSE))
          /\ UNCHANGED <<nextTmp, testDir>>
          /\ Finish(p, <<"TRACEBACK">>, "uncaught")
    /\ UNCHANGED <<script, argv, acc, fs, termPatched, img, decImage>>

\* Lines 32-54: the 320x256 test image, saved as input.png (outside every
\* try as well).
RImage(p) ==
    /\ At(p, "roundtrip", "image")
    /\ img' = [img EXCEPT ![p] = TestPattern]
    /\ Touch(p, Access(TestFile(p, InputPng), "write"))
    /\ \/ /\ Record(p, Call("img.save", TRUE))
          /\ fs' = [fs EXCEPT ![TestFile(p, InputPng)] = Written(p)]
          /\ Goto(p, <<"IMAGE_CREATED">>, "encoder")
       \/ /\ Record(p, Call("img.save", FALSE))
          /\ FailedWrite(p, TestFile(p, InputPng))
          /\ Finish(p, <<"TRACEBACK">>, "uncaught")
    /\ UNCHANGED <<script, argv, nextTmp, testDir, termPatched, decImage>>

\* Lines 58-61: encoder = SSTVEncoder(img, spec.Robot36, 48000); an
\* Exception goes to line 72.
RConstruct(p) ==
    /\ At(p, "roundtrip", "encoder")
    /\ \E ok \in BOOLEAN :
         /\ Record(p, Call("SSTVEncoder", ok))
         /\ IF ok THEN Goto(p, <<>>, "write")
                  ELSE Finish(p, <<"ENCODING_FAILED">>, "return1")
    /\ UNCHANGED <<script, argv, acc, fs, nextTmp, testDir, termPatched,
                   img, decImage>>

\* A test that goes on to decode although encoder.write raised.
RWrite_GoesOn(p) ==
    /\ At(p, "roundtrip", "write")
    /\ Touch(p, Access(TestFile(p, EncodedWav), "write"))
    /\ \/ /\ Record(p, Call("write", TRUE))
          /\ fs' = [fs EXCEPT ![TestFile(p, EncodedWav)] = Written(p)]
       \/ /\ Record(p, Call("write", FALSE))
          /\ fs' = [fs EXCEPT ![TestFile(p, EncodedWav)] = Partial(p)]
    /\ Goto(p, <<>>, "stat")
    /\ UNCHANGED <<script, argv, nextTmp, testDir, termPatched, img,
                   decImage>>

\* Lines 63-64: encoder.write(str(output_wav)).
RWrite(p) ==
    /\ At(p, "roundtrip", "write")
    /\ Touch(p, Access(TestFile(p, EncodedWav), "write"))
    /\ \/ /\ Record(p, Call("write", TRUE))
          /\ fs' = [fs EXCEPT ![TestFile(p, EncodedWav)] = Written(p)]
          /\ Goto(p, <<>>, "stat")
       \/ /\ Record(p, Call("write", FALSE))
          /\ FailedWrite(p, TestFile(p, EncodedWav))
          /\ Finish(p, <<"ENCODING_FAILED">>, "return1")
    /\ UNCHANGED <<script, argv, nextTmp, testDir, termPatched, img,
                   decImage>>

\* Lines 66-74: output_wav.stat() and the report of step 2.
RStat(p) ==
    /\ At(p, "roundtrip", "stat")
    /\ Touch(p, Access(TestFile(p, EncodedWav), "read"))
    /\ IF fs[TestFile(p, EncodedWav)].exists
         THEN Goto(p, <<"AUDIO_ENCODED">>, "decoder")
         ELSE Finish(p, <<"ENCODING_FAILED">>, "return1")
    /\ UNCHANGED <<script, argv, calls, fs, nextTmp, testDir, termPatched,
                   img, decImage>>

\* Line 79: decoder = SSTVDecoder(str(output_wav)); an Exception goes to
\* line 104.
RDecoder(p) ==
    /\ At(p, "roundtrip", "decoder")
    /\ Touch(p, Access(TestFile(p, EncodedWav), "read"))
    /\ \E ok \in BOOLEAN :
         /\ Record(p, Call("SSTVDecoder", ok))
         /\ IF ok THEN Goto(p, <<>>, "decode")
                  ELSE Finish(p, <<"DECODING_FAILED", "TEST_FAILED",
                                   "TRACEBACK">>, "return1")
    /\ UNCHANGED <<script, argv, fs, nextTmp, testDir, termPatched, img,
                   decImage>>

\* Lines 80-82 and 99-109: decoder.decode(), then the test of decoder.image.
RDecode(p) ==
    /\ At(p, "roundtrip", "decode")
    /\ Touch(p, Access(TestFile(p, EncodedWav), "read"))
    /\ \/ /\ Record(p, Call("decode", FALSE))
          /\ Finish(p, <<"DECODING_FAILED", "TEST_FAILED", "TRACEBACK">>,
                    "return1")
          /\ UNCHANGED decImage
       \/ /\ Record(p, Call("decode", TRUE))
          /\ Finish(p, <<"NO_SIGNAL", "TEST_FAILED">>, "return1")
          /\ UNCHANGED decImage
       \/ /\ Record(p, Call("decode", TRUE))
          /\ \E im \in DecodedImages :
               decImage' = [decImage EXCEPT ![p] = im]
          /\ Goto(p, <<>>, "save")
    /\ UNCHANGED <<script, argv, fs, nextTmp, testDir, termPatched, img>>

\* Lines 83-84: decoder.image.save(str(output_image)).
RSave(p) ==
    /\ At(p, "roundtrip", "save")
    /\ Touch(p, Access(TestFile(p, DecodedPng), "write"))
    /\ \/ /\ Record(p, Call("save", TRUE))
          /\ fs' = [fs EXCEPT ![TestFile(p, DecodedPng)] = Written(p)]
          /\ Goto(p, <<>>, "report")
       \/ /\ Record(p, Call("save", FALSE))
          /\ FailedWrite(p, TestFile(p, DecodedPng))
          /\ Finish(p, <<"DECODING_FAILED", "TEST_FAILED", "TRACEBACK">>,
                    "return1")
    /\ UNCHANGED <<script, argv, nextTmp, testDir, termPatched, img,
                   decImage>>

\* Lines 86-98: output_image.stat(), the report, TEST PASSED, return 0.
RReport(p) ==
    /\ At(p, "roundtrip", "report")
    /\ Touch(p, Access(TestFile(p, DecodedPng), "read"))
    /\ IF fs[TestFile(p, DecodedPng)].exists
         THEN Finish(p, <<"IMAGE_DECODED", "TEST_PASSED">>, "return0")
         ELSE Finish(p, <<"DECODING_FAILED", "TEST_FAILED", "TRACEBACK">>,
                     "return1")
    /\ UNCHANGED <<script, argv, calls, fs, nextTmp, testDir, termPatched,
                   img, decImage>>

RoundTrip(p) ==
    \/ RImport(p)
    \/ RMkdtemp(p)
    \/ RImage(p)
    \/ RConstruct(p)
    \/ RWrite(p)
    \/ RStat(p)
    \/ RDecoder(p)
    \/ RDecode(p)
    \/ RSave(p)
    \/ RReport(p)

Next == \E p \in Procs : Wrapper(p) \/ Generator(p) \/ RoundTrip(p)

Spec == Init /\ [][Next]_vars
(***************************************************************************)
(* Properties                                                              *)
(***************************************************************************)

Range(s) == {s[i] : i \in 1 .. Len(s)}
Ops(p) == [i \in 1 .. Len(calls[p]) |-> calls[p][i].op]
Made(p, op) == \E i \in 1 .. Len(calls[p]) : calls[p][i].op = op
Returned(p, op) == Call(op, TRUE) \in Range(calls[p])
Raised(p, op) == Call(op, FALSE) \in Range(calls[p])
Wrote(p) == {a.path : a \in {b \in acc[p] : b.op = "write"}}
IsPrefix(s, t) == Len(s) <= Len(t) /\ \A i \in 1 .. Len(s) : s[i] = t[i]

\* The size Robot36 fixes, and the tolerance of the round trip.
Robot36Size == [width |-> 320, height |-> 240]
HasRobot36Size(im) ==
    im.width = Robot36Size.width /\ im.height = Robot36Size.height
Within2(a, b) ==
    /\ a.width = b.width
    /\ a.height = b.height
    /\ a.sample - b.sample \in -2 .. 2

\* decode() ended without an image: it raised, or returned leaving none.
DecodeReturnedNoImage(p) == Returned(p, "decode") /\ decImage[p] = NoImage
DecodeRaised(p) == Raised(p, "decode")

\* C2: a round-trip test that reports TEST PASSED (returns 0) has decoded an
\* image of the source's size whose pixel channels are within 2 of the
\* source's.
C2_PassedMeansReproduced ==
    \A p \in Procs :
        (script[p] = "roundtrip" /\ result[p] = "return0")
            => Within2(decImage[p], img[p])

\* C3: an encode of an image that is not 320x240 fails at once and leaves
\* no output: neither the encoder's construction nor its write returns for
\* an image of another size, in the generator and in the round-trip test.
C3_WrongSizeEncodeFails ==
    \A p \in Procs :
        (script[p] \in {"generator", "roundtrip"} /\ ~HasRobot36Size(img[p]))
            => /\ ~Returned(p, "Robot36")
               /\ ~Returned(p, "SSTVEncoder")
               /\ ~Returned(p, "write_wav")
               /\ ~Returned(p, "write")

\* C4: when the decode ends without an image (as it does when the header
\* check fails), the wrapper has ended with exit status 1, never called
\* save, never wrote to the output path and never printed SUCCESS.
C4_NoImageNoPng ==
    \A p \in Procs :
        (script[p] = "wrapper"
            /\ (DecodeRaised(p) \/ DecodeReturnedNoImage(p)))
            => /\ ExitStatus(p) = 1
               /\ ~Made(p, "save")
               /\ Wrote(p) = {}
               /\ fs[OutputPng(p)].by # p
               /\ "SUCCESS" \notin Range(out[p])

C4_Witness ==
    \E p \in Procs :
        /\ script[p] = "wrapper"
        /\ DecodeRaised(p)
        /\ fs[OutputPng(p)] = Before
        /\ ExitStatus(p) = 1

NoSignalMessages == {"FAILED_NO_SIGNAL", "NO_SIGNAL"}
DecodeErrorMessages == {"ERROR_DECODE", "DECODING_FAILED"}

UserNames(p) ==
    CASE script[p] = "wrapper" ->
            {argv[p][i] : i \in 1 .. (IF Len(argv[p]) < 2 THEN Len(argv[p]) ELSE 2)}
      [] script[p] = "generator" ->
            {argv[p][i] : i \in 1 .. (IF Len(argv[p]) < 1 THEN 0 ELSE 1)}
      [] OTHER -> {}
UserOutputs(p) ==
    CASE script[p] = "wrapper" /\ Len(argv[p]) >= 2 -> {argv[p][2]}
      [] script[p] = "generator" /\ Len(argv[p]) >= 1 -> {argv[p][1]}
      [] OTHER -> {}
DefaultNames(p) ==
    IF script[p] = "generator" /\ Len(argv[p]) = 0 THEN {DefaultOutput} ELSE {}
EffectiveNames(p) == UserNames(p) \cup DefaultNames(p)
EffectiveOutputs(p) == UserOutputs(p) \cup DefaultNames(p)

\* No run saw or replaced a file the other wrote, no file a run wrote was
\* replaced by the other, the test directories differ, and the terminal-size
\* patch is in the wrapper's own process only.
NoInterference ==
    /\ \A p \in Procs : \A a \in acc[p] : a.by \in {0, p}
    /\ \A p \in Procs : \A x \in Wrote(p) : fs[x].by \in {0, p}
    /\ \A p, q \in Procs :
         (p # q /\ testDir[p] # 0) => testDir[p] # testDir[q]
    /\ \A p \in Procs : termPatched[p] => script[p] = "wrapper"

\* C6 as claimed: two runs whose command lines name independent files (no
\* run names a file the other is told to write) never interfere.
C6_IndependentRunsShareNothing ==
    (\A p, q \in Procs : p # q => UserOutputs(p) \cap UserNames(q) = {})
        => NoInterference

\* C6 as amended: two runs never interfere provided no run writes a file
\* the other names, the generator's default output file counted among the
\* files a generator run without argument names and writes.
C6_DisjointPathsShareNothing ==
    (\A p, q \in Procs :
        p # q => EffectiveOutputs(p) \cap EffectiveNames(q) = {})
        => NoInterference

C6_Witness ==
    \E p, q \in Procs :
        /\ p # q
        /\ script[p] = "generator" /\ argv[p] = <<>>
        /\ result[p] = "return0"
        /\ script[q] = "roundtrip" /\ result[q] = "return0"
        /\ fs[Cwd(DefaultOutput)] = Written(p)
        /\ fs[TestFile(q, DecodedPng)] = Written(q)

\* C8: a wrapper run that has ended has exit status 0 exactly when the
\* decoder was constructed, decode returned, decoder.image is an image and
\* save returned, and exit status 1 otherwise; SUCCESS is printed only
\* after save returned.
C8_ExitZeroIffSaved ==
    \A p \in Procs :
        script[p] = "wrapper" =>
            /\ Done(p) => ExitStatus(p) \in {0, 1}
            /\ Done(p) =>
                 (ExitStatus(p) = 0 <=>
                    /\ Returned(p, "SSTVDecoder")
                    /\ Returned(p, "decode")
                    /\ decImage[p] # NoImage
                    /\ Returned(p, "save"))
            /\ "SUCCESS" \in Range(out[p]) =>
                 /\ Returned(p, "save")
                 /\ fs[OutputPng(p)].exists
                 /\ ExitStatus(p) = 0

C8_Witness ==
    \E p, q \in Procs :
        /\ script[p] = "wrapper" /\ script[q] = "wrapper"
        /\ ExitStatus(p) = 0
        /\ Raised(q, "save") /\ ExitStatus(q) = 1

C9_Step(p) ==
    /\ pc[p] \in {"import", "args"} => acc[p] = {}
    /\ (pc[p] = "args" /\ Len(argv[p]) # 2 /\ pc'[p] # pc[p]) =>
          /\ out'[p] = <<"USAGE">>
          /\ result'[p] = "exit1"
          /\ acc'[p] = {}
          /\ calls'[p] = calls[p]
          /\ fs' = fs
    /\ (pc[p] = "exists" /\ ~fs[InputWav(p)].exists /\ pc'[p] # pc[p]) =>
          /\ result'[p] = "exit1"
          /\ calls'[p] = calls[p]
          /\ ~Made(p, "SSTVDecoder")
          /\ \A a \in acc'[p] : a.op # "write"
          /\ fs' = fs
    /\ Done(p) =>
          /\ pc'[p] = pc[p]
          /\ result'[p] = result[p]
          /\ acc'[p] = acc[p]
          /\ calls'[p] = calls[p]

\* C9: the wrapper step that finds the argument count wrong prints the
\* usage text and exits 1 having made no file access; the step that finds
\* the input missing exits 1 with no decoder constructed; neither step
\* changes any file, and a run that has ended does nothing more.
C9_InputsCheckedFirst ==
    [][\A p \in Procs : script[p] = "wrapper" => C9_Step(p)]_vars

C9_Witness ==
    \E p, q \in Procs :
        /\ script[p] = "wrapper" /\ script[q] = "wrapper"
        /\ out[p] = <<"USAGE">> /\ ExitStatus(p) = 1
        /\ out[q] = <<"ERROR_INPUT_NOT_FOUND">> /\ ExitStatus(q) = 1
        /\ fs[OutputPng(q)] = Before

\* test-sstv-roundtrip.py: the library calls of the stages, in order.
RtStages ==
    <<"import", "mkdtemp", "img.save", "SSTVEncoder", "write",
      "SSTVDecoder", "decode", "save">>

\* The stages run in order and stop at the first that fails; the decoder is
\* constructed only after the encoder's write returned; 0 is returned, and
\* TEST PASSED printed, only when every stage succeeded and the decoded
\* image was saved.
C10_Stages(p) ==
    /\ IsPrefix(Ops(p), RtStages)
    /\ \A i \in 1 .. Len(calls[p]) - 1 : calls[p][i].ok
    /\ (\E i \in 1 .. Len(calls[p]) : ~calls[p][i].ok) =>
          Done(p) /\ ExitStatus(p) = 1
    /\ Made(p, "SSTVDecoder") => Returned(p, "write")
    /\ result[p] = "return0" <=> "TEST_PASSED" \in Range(out[p])
    /\ result[p] = "return0" =>
          /\ Len(calls[p]) = Len(RtStages)
          /\ \A i \in 1 .. Len(calls[p]) : calls[p][i].ok
          /\ decImage[p] # NoImage
          /\ fs[TestFile(p, DecodedPng)] = Written(p)
    /\ (Done(p) /\ result[p] # "return0") => ExitStatus(p) = 1

\* C10 as claimed: in every execution that is not a pass, main returns 1.
C10_MainReturnsZeroOrOne ==
    \A p \in Procs :
        script[p] = "roundtrip" =>
            /\ C10_Stages(p)
            /\ Done(p) => result[p] \in {"return0", "return1"}

\* C10 as amended: in every execution that is not a pass the exit status is
\* 1: main returns 1, except that an exception raised by mkdtemp or by
\* saving the test image leaves main uncaught.
C10_ExitsZeroOrOne ==
    \A p \in Procs :
        script[p] = "roundtrip" =>
            /\ C10_Stages(p)
            /\ Done(p) => result[p] \in {"return0", "return1", "uncaught"}
            /\ result[p] = "uncaught" <=>
                 (Raised(p, "mkdtemp") \/ Raised(p, "img.save"))

C10_Witness ==
    \E p, q \in Procs :
        /\ script[p] = "roundtrip" /\ script[q] = "roundtrip"
        /\ result[p] = "return0"
        /\ result[q] = "uncaught" /\ Raised(q, "img.save")
====
